---- MODULE Spec2Model ----
(***************************************************************************)
(* The poll loop of src/main.py (Discord -> Altrady relay): the persisted  *)
(* cursor, the paged channel fetch, the cooldown gate, the retrying        *)
(* multi-webhook delivery, and the process's crash / cancellation          *)
(* behaviour.  discord_to_bybit.py carries the same load_state,            *)
(* save_state, fetch_messages_after and main loop line for line; its       *)
(* lines are named beside the main.py lines where they coincide.           *)
(*                                                                         *)
(* Message identifiers are the naturals 1, 2, 3, ... in posting order.     *)
(* Python's None for last_id is the number 0 (the code itself reads the    *)
(* cursor as int(last_id or 0) and tests it with "if after_id").           *)
(***************************************************************************)
EXTENDS Integers, Sequences, FiniteSets, TLC

\* ---------------------------------------------------------------- bounds
\* Messages the channel ever holds (history plus newly posted ones).
MaxMsg == 3
\* Messages already in the channel when the first seeding request is answered.
MaxHist == 1
\* Characters of a string given to clean_markdown (any of Chars).
MaxLen == 4
\* Characters of a string made of link and emphasis characters (LinkChars).
MaxLinkLen == 7
\* Lines of a message text given to parse_signal_from_text.
MaxLines == 3
\* Applications of clean_markdown to one string.
MaxApplied == 2
\* Last instant of the modelled wall clock.
MaxTime == 2
\* Times the process is started again (after a crash or after it ended).
MaxRestarts == 1
\* 429 answers the channel endpoint gives within one fetch_messages_after.
MaxRateLimits == 1

\* ------------------------------------------------------ program constants
\* DISCORD_FETCH_LIMIT (environment, default 50): the page size of a tick.
DISCORD_FETCH_LIMIT == 2
\* limit=1 of the seeding fetch.
SEED_LIMIT == 1
\* The protocol maximum in max(1, min(limit, 100)).
PAGE_CAP == 100
\* range(3) in _post_one.
POST_ATTEMPTS == 3
\* 1.5 in wait = 1.5 * (attempt + 1), in milliseconds.
BACKOFF_STEP == 1500
\* delay + 0.25 with the default delay = 2.0, in milliseconds.
RATE_LIMIT_WAIT == 2250
\* The positive COOLDOWN_SECONDS the model offers beside 0 (= off).
COOLDOWN_ON == 1
\* time.time() when the process is first started: epoch seconds lie beyond
\* any cooldown, so the initial last_trade_ts of 0.0 never blocks.
START_TIME == COOLDOWN_ON

\* discord_to_bybit.py: LEVERAGE and RISK_USDT (environment, defaults 5, 10).
LEVERAGE == 5
RISK_DEFAULT == 10
\* qty=f"{qty:.6f}": quantities are counted in millionths of a coin.
QTY_UNIT == 1000000

None == 0
\* find_entry returning None (prices themselves are never negative).
NoPrice == -1

Kinds == {"signal", "noise", "bad"}

VARIABLES
  \* environment
  channel,        \* sequence of message kinds; message id = index
  now,            \* wall clock
  \* configuration (environment variables, fixed per behaviour)
  COOLDOWN_SECONDS,
  active_webhooks,
  TEST_MODE,
  \* disk
  stateFile,      \* STATE_FILE
  tmpFile,        \* STATE_FILE.with_suffix(".json.tmp")
  \* process
  pc,
  phase,          \* "seed" (first-run baseline) or "tick" (poll loop)
  last_id,
  last_trade_ts,
  state,          \* the dict handed to save_state
  params,         \* fetch_messages_after: params["after"], params["limit"]
  collected,      \* fetch_messages_after: collected
  nlimited,       \* 429 answers seen in this fetch
  nreq,           \* page requests answered so far in this fetch
  msgs_sorted,
  i,              \* position in "for m in msgs_sorted" (1-based)
  max_seen,
  dest,           \* post_to_all_webhooks: index of the job being posted
  attempt,        \* _post_one: attempt
  slept,          \* _post_one: the wait (ms) before the POST now due, 0 if none
  restarts,
  \* history (observations, never read by the program)
  baseline,       \* messages that existed when the first seeding request was answered
  dispatched,     \* id -> calls of post_to_all_webhooks for it (saturating at 2)
  handled,        \* ids the processing loop finished handling
  tried,          \* webhook -> POSTs sent in the running post_to_all_webhooks
  outcome,        \* webhook -> how _post_one ended in the running call
  fetchedAfter,   \* the cursor the latest tick's fetch started from
  dropped,        \* ids the cooldown gate skipped
  doneAt,         \* when the running process's latest post_to_all_webhooks returned
  \* clean_markdown applied to one string (specification SpecClean)
  str,            \* the string, a sequence of characters
  before,         \* the string before the latest clean_markdown
  napplied,       \* times clean_markdown has been applied
  \* one message through parse and dispatch (specification SpecParse)
  raw,            \* message_text(m): a sequence of lines
  sig,            \* parse_signal_from_text(raw)
  ppc,            \* position in the loop body
  posts,          \* calls of post_to_all_webhooks
  folded,         \* max_seen = max(max_seen, mid) was executed
  \* one message through the loop body of discord_to_bybit.py (SpecBybit)
  RISK_USDT,      \* configuration
  orders          \* calls of bybit.place_order

envv   == <<channel, now>>
cfgv   == <<COOLDOWN_SECONDS, active_webhooks, TEST_MODE>>
diskv  == <<stateFile, tmpFile>>
memv   == <<last_id, last_trade_ts, state>>
fetchv == <<params, collected, nlimited, nreq>>
loopv  == <<msgs_sorted, i, max_seen>>
postv  == <<dest, attempt, slept, tried, outcome>>
histv  == <<baseline, dispatched, handled, fetchedAfter, dropped>>
obsv   == <<histv, doneAt>>
cleanv == <<str, before, napplied>>
parsev == <<raw, sig, ppc, posts, folded>>
bybitv == <<RISK_USDT, orders>>
textv  == <<cleanv, parsev, bybitv>>
vars   == <<channel, now, COOLDOWN_SECONDS, active_webhooks, TEST_MODE,
            stateFile, tmpFile,
            pc, phase, last_id, last_trade_ts, state, params, collected,
            nlimited, nreq, msgs_sorted, i, max_seen, dest, attempt, slept, restarts,
            baseline, dispatched, handled, tried, outcome, fetchedAfter, dropped, doneAt,
            str, before, napplied, raw, sig, ppc, posts, folded,
            RISK_USDT, orders>>

\* ---------------------------------------------------------------- helpers
Max(a, b) == IF a >= b THEN a ELSE b
Min(a, b) == IF a <= b THEN a ELSE b

SetMax(S) == CHOOSE m \in S : \A k \in S : k <= m

RECURSIVE Desc(_)
Desc(S) == IF S = {} THEN <<>> ELSE <<SetMax(S)>> \o Desc(S \ {SetMax(S)})

Range(s) == {s[k] : k \in DOMAIN s}

\* sorted(msgs, key=lambda m: int(m.get("id","0"))): stable insertion sort.
RECURSIVE Insert(_, _)
Insert(s, x) ==
  IF s = <<>> THEN <<x>>
  ELSE IF x < Head(s) THEN <<x>> \o s
  ELSE <<Head(s)>> \o Insert(Tail(s), x)

RECURSIVE SortAsc(_)
SortAsc(s) == IF s = <<>> THEN <<>> ELSE Insert(SortAsc(Tail(s)), Head(s))

\* ------------------------------------------------------------------ disk
Absent  == [exists |-> FALSE, complete |-> FALSE, last_id |-> None, last_trade_ts |-> 0]
Partial == [exists |-> TRUE,  complete |-> FALSE, last_id |-> None, last_trade_ts |-> 0]
FileOf(st) == [exists |-> TRUE, complete |-> TRUE,
               last_id |-> st.last_id, last_trade_ts |-> st.last_trade_ts]

DefaultState == [last_id |-> None, last_trade_ts |-> 0]

\* load_state: the parsed file, or the default when the file is missing or
\* json.loads fails on it.
load_state ==
  IF stateFile.exists /\ stateFile.complete
    THEN [last_id |-> stateFile.last_id, last_trade_ts |-> stateFile.last_trade_ts]
    ELSE DefaultState

\* The cursor a restart would load.
PersistedId == load_state.last_id

\* --------------------------------------------------------------- channel
Ids == 1..Len(channel)

\* The channel endpoint: without "after" the most recent `limit` messages,
\* with "after" the `limit` messages that follow it; newest first.
ServerPage(after, limit) ==
  LET newer == {m \in Ids : m > after}
      pick  == IF after = None
                 THEN {m \in Ids : Cardinality({k \in Ids : k > m}) < limit}
                 ELSE {m \in newer : Cardinality({k \in newer : k < m}) < limit}
  IN Desc(pick)

\* params = {"limit": max(1, min(limit, 100))}
ClampLimit(limit) == Max(1, Min(limit, PAGE_CAP))

NoPosts   == [d \in 1..2 |-> 0]
NoOutcome == [d \in 1..2 |-> "none"]
NoBaseline == MaxMsg + 1

TypeOK ==
  /\ channel \in Seq(Kinds) /\ Len(channel) <= MaxMsg
  /\ now \in START_TIME..MaxTime
  /\ COOLDOWN_SECONDS \in {0, COOLDOWN_ON}
  /\ active_webhooks \in {1, 2}
  /\ TEST_MODE \in BOOLEAN
  /\ pc \in {"boot", "fetch", "save0", "save1", "save2", "loop", "process",
             "post", "recover", "sleep", "exited", "killed"}
  /\ phase \in {"seed", "tick"}
  /\ last_id \in 0..MaxMsg
  /\ max_seen \in 0..MaxMsg
  /\ i \in 0..MaxMsg
  /\ dest \in 0..2
  /\ attempt \in 0..(POST_ATTEMPTS - 1)
  /\ restarts \in 0..MaxRestarts
  /\ baseline \in 0..NoBaseline
  /\ handled \subseteq 1..MaxMsg
  /\ doneAt \in {None} \cup START_TIME..MaxTime
  /\ dropped \subseteq handled

\* The poll loop's process at its start, with no state file on disk.
ProgramInit ==
  /\ channel = <<>>
  /\ now = START_TIME
  /\ COOLDOWN_SECONDS \in {0, COOLDOWN_ON}
  /\ active_webhooks \in {1, 2}
  /\ TEST_MODE \in BOOLEAN
  /\ stateFile = Absent
  /\ tmpFile = Absent
  /\ pc = "boot"
  /\ phase = "seed"
  /\ last_id = None
  /\ last_trade_ts = 0
  /\ state = DefaultState
  /\ params = [after |-> None, limit |-> SEED_LIMIT]
  /\ collected = <<>>
  /\ nlimited = 0
  /\ nreq = 0
  /\ msgs_sorted = <<>>
  /\ i = 0
  /\ max_seen = 0
  /\ dest = 0
  /\ attempt = 0
  /\ slept = 0
  /\ tried = NoPosts
  /\ outcome = NoOutcome
  /\ restarts = 0
  /\ baseline = NoBaseline
  /\ dispatched = [m \in 1..MaxMsg |-> 0]
  /\ handled = {}
  /\ fetchedAfter = None
  /\ dropped = {}
  /\ doneAt = None

\* No clean_markdown call under study.
CleanIdle ==
  /\ str = <<>>
  /\ before = <<>>
  /\ napplied = 0

\* parse_signal_from_text returned None.
NoSignal == [base |-> "", side |-> "", entry |-> 0]

\* No single message under study.
ParseIdle ==
  /\ raw = <<>>
  /\ sig = NoSignal
  /\ ppc = "idle"
  /\ posts = 0
  /\ folded = FALSE

\* No message of discord_to_bybit.py under study.
BybitIdle ==
  /\ RISK_USDT = RISK_DEFAULT
  /\ orders = 0

Init == ProgramInit /\ CleanIdle /\ ParseIdle /\ BybitIdle

\* ------------------------------------------------------------ environment
\* Somebody posts a message to the channel.  The program sees the channel
\* only through its page requests, so a message posted at any earlier moment
\* (also before the process was first started) is the same to it as one
\* posted while the next request is under way.
PostMessage ==
  /\ Len(channel) < MaxMsg
  /\ pc = "fetch"
  /\ baseline = NoBaseline => Len(channel) < MaxHist
  /\ \E k \in Kinds : channel' = Append(channel, k)
  /\ UNCHANGED <<now, cfgv, textv, diskv, pc, phase, memv, fetchv, loopv, postv,
                 restarts, obsv>>

\* Wall-clock time passes: while the process sleeps (time.sleep(10),
\* sleep_until_next_tick) or is down.  The seconds-long cooldown is not
\* measured against the microseconds between two iterations of the loop.
ClockTick ==
  /\ now < MaxTime
  /\ pc \in {"boot", "recover", "sleep"}
  /\ now' = now + 1
  /\ UNCHANGED <<channel, cfgv, textv, diskv, pc, phase, memv, fetchv, loopv, postv,
                 restarts, obsv>>

\* ---------------------------------------------------- frames that are gone
\* No call of fetch_messages_after is running: its locals do not exist.
NoFetch ==
  /\ params' = [after |-> None, limit |-> SEED_LIMIT]
  /\ collected' = <<>>
  /\ nlimited' = 0
  /\ nreq' = 0

\* The tick's try body is over: msgs_sorted, the loop position and max_seen
\* are not read again before the next tick assigns them.
NoBatch ==
  /\ msgs_sorted' = <<>>
  /\ i' = 0
  /\ max_seen' = 0

\* No call of post_to_all_webhooks is running.
NoPost ==
  /\ dest' = 0
  /\ attempt' = 0
  /\ slept' = 0
  /\ tried' = NoPosts
  /\ outcome' = NoOutcome

\* The memory of a process that is not running.
Forget ==
  /\ last_id' = None
  /\ last_trade_ts' = 0
  /\ state' = DefaultState
  /\ phase' = "seed"
  /\ NoFetch
  /\ NoBatch
  /\ NoPost
  /\ doneAt' = None

\* ------------------------------------------------------------------ start
\* main(): state = load_state(); last_id; last_trade_ts; on a null cursor
\* the seeding fetch fetch_messages_after(CHANNEL_ID, None, limit=1) starts.
LoadState ==
  /\ pc = "boot"
  /\ state' = load_state
  /\ last_id' = state'.last_id
  /\ last_trade_ts' = state'.last_trade_ts
  /\ IF last_id' = None
       THEN /\ pc' = "fetch"
            /\ phase' = "seed"
            /\ params' = [after |-> None, limit |-> ClampLimit(SEED_LIMIT)]
            /\ collected' = <<>>
            /\ nlimited' = 0
            /\ nreq' = 0
       ELSE /\ pc' = "loop"
            /\ phase' = "tick"
            /\ UNCHANGED fetchv
  /\ UNCHANGED <<envv, cfgv, textv, diskv, loopv, postv, restarts, obsv>>

\* while True: try: msgs = fetch_messages_after(CHANNEL_ID, last_id, ...)
StartTick ==
  /\ pc = "loop"
  /\ pc' = "fetch"
  /\ phase' = "tick"
  /\ params' = [after |-> last_id, limit |-> ClampLimit(DISCORD_FETCH_LIMIT)]
  /\ collected' = <<>>
  /\ nlimited' = 0
  /\ nreq' = 0
  /\ fetchedAfter' = last_id
  /\ UNCHANGED <<envv, cfgv, textv, diskv, memv, loopv, postv, restarts, baseline,
                 dispatched, doneAt, handled, dropped>>

\* ------------------------------------------------------------------ fetch
\* The first answer (other than 429) to the first seeding request fixes
\* which messages count as the history before the first run.
Answered ==
  baseline' = IF phase = "seed" /\ baseline = NoBaseline THEN Len(channel) ELSE baseline

\* A main that loops over msgs as fetched, without sorted(...).
FetchReturnsUnsorted(got) ==
  IF phase = "seed"
    THEN /\ IF got # <<>>
              THEN /\ last_id' = got[1]
                   /\ state' = [state EXCEPT !.last_id = got[1]]
                   /\ pc' = "save0"
              ELSE /\ pc' = "loop"
                   /\ UNCHANGED <<last_id, state>>
         /\ UNCHANGED <<last_trade_ts, loopv>>
    ELSE /\ IF got = <<>>
              THEN /\ pc' = "sleep"
                   /\ NoBatch
              ELSE /\ pc' = "process"
                   /\ msgs_sorted' = got
                   /\ max_seen' = last_id
                   /\ i' = 1
         /\ UNCHANGED memv

\* What follows the return of fetch_messages_after with result `got`.
\* Seeding: a non-empty page sets last_id and state["last_id"] and calls
\* save_state.  Tick: sort, max_seen = int(last_id or 0), and either the
\* empty-batch branch (nothing saved) or the processing loop.
FetchReturns(got) ==
  IF phase = "seed"
    THEN /\ IF got # <<>>
              THEN /\ last_id' = got[1]
                   /\ state' = [state EXCEPT !.last_id = got[1]]
                   /\ pc' = "save0"
              ELSE /\ pc' = "loop"
                   /\ UNCHANGED <<last_id, state>>
         /\ UNCHANGED <<last_trade_ts, loopv>>
    ELSE /\ IF got = <<>>
              THEN /\ pc' = "sleep"
                   /\ NoBatch
              ELSE /\ pc' = "process"
                   /\ msgs_sorted' = SortAsc(got)
                   /\ max_seen' = last_id
                   /\ i' = 1
         /\ UNCHANGED memv

\* A fetch that returns after its first answered page, full or not.
FetchPageOkStops ==
  /\ pc = "fetch"
  /\ FetchReturns(collected \o ServerPage(params.after, params.limit))
  /\ NoFetch
  /\ Answered
  /\ UNCHANGED <<envv, cfgv, textv, diskv, phase, postv, restarts, dispatched, doneAt, handled,
                 fetchedAfter, dropped>>

\* One page request answered 200: extend collected; a short page ends the
\* fetch, a full page moves params["after"] to the page's maximum id.
FetchPageOk ==
  /\ pc = "fetch"
  /\ LET page == ServerPage(params.after, params.limit) IN
       IF Len(page) < params.limit
         THEN /\ FetchReturns(collected \o page)
              /\ NoFetch
         ELSE /\ collected' = collected \o page
              /\ params' = [params EXCEPT !.after = SetMax(Range(page))]
              /\ nreq' = nreq + 1
              /\ UNCHANGED <<pc, memv, loopv, nlimited>>
  /\ Answered
  /\ UNCHANGED <<envv, cfgv, textv, diskv, phase, postv, restarts, dispatched, doneAt, handled,
                 fetchedAfter, dropped>>

\* A 429 branch that moves params["after"] on before it retries.
FetchPage429Advances ==
  /\ pc = "fetch"
  /\ nlimited < MaxRateLimits
  /\ nlimited' = nlimited + 1
  /\ nreq' = nreq + 1
  /\ params' = [params EXCEPT !.after = Min(@ + 1, MaxMsg)]
  /\ UNCHANGED <<envv, cfgv, textv, diskv, pc, phase, memv, collected, loopv,
                 postv, restarts, obsv>>

\* One page request answered 429: sleep, then the same request again.
FetchPage429 ==
  /\ pc = "fetch"
  /\ nlimited < MaxRateLimits
  /\ nlimited' = nlimited + 1
  /\ nreq' = nreq + 1
  /\ UNCHANGED <<envv, cfgv, textv, diskv, pc, phase, memv, params, collected, loopv,
                 postv, restarts, obsv>>

\* requests.get or raise_for_status raises.  The seeding fetch sits in
\* "try: ... except: pass"; the tick's fetch in the loop's catch-all.
FetchError ==
  /\ pc = "fetch"
  /\ pc' = IF phase = "seed" THEN "loop" ELSE "recover"
  /\ NoFetch
  /\ Answered
  /\ UNCHANGED <<envv, cfgv, textv, diskv, phase, memv, loopv, postv, restarts,
                 dispatched, doneAt, handled, fetchedAfter, dropped>>

\* ------------------------------------------------------------- save_state
\* A save_state that writes STATE_FILE in place, without the temporary file.
SaveWriteInPlace ==
  /\ pc = "save0"
  /\ stateFile' = Partial
  /\ pc' = "save1"
  /\ UNCHANGED <<envv, cfgv, textv, tmpFile, phase, memv, fetchv, loopv, postv,
                 restarts, obsv>>

\* tmp.write_text(...) opens (creates or truncates) the temporary file.
SaveWriteBegin ==
  /\ pc = "save0"
  /\ tmpFile' = Partial
  /\ pc' = "save1"
  /\ UNCHANGED <<envv, cfgv, textv, stateFile, phase, memv, fetchv, loopv, postv,
                 restarts, obsv>>

\* tmp.write_text(...) finishes: the temporary file holds json.dumps(st).
SaveWriteEnd ==
  /\ pc = "save1"
  /\ tmpFile' = FileOf(state)
  /\ pc' = "save2"
  /\ UNCHANGED <<envv, cfgv, textv, stateFile, phase, memv, fetchv, loopv, postv,
                 restarts, obsv>>

\* tmp.replace(STATE_FILE): one rename.  Then seeding falls through to the
\* loop, a tick reaches its finally clause.
SaveReplace ==
  /\ pc = "save2"
  /\ stateFile' = tmpFile
  /\ tmpFile' = Absent
  /\ pc' = IF phase = "seed" THEN "loop" ELSE "sleep"
  /\ UNCHANGED <<envv, cfgv, textv, phase, memv, fetchv, loopv, postv, restarts, obsv>>

\* save_state raises (OSError) at any of its steps; the files stay as they
\* are.  Seeding swallows it, a tick goes to the catch-all.
SaveError ==
  /\ pc \in {"save0", "save1", "save2"}
  /\ pc' = IF phase = "seed" THEN "loop" ELSE "recover"
  /\ UNCHANGED <<envv, cfgv, textv, diskv, phase, memv, fetchv, loopv, postv, restarts,
                 obsv>>

\* -------------------------------------------------------- processing loop
CurMid == msgs_sorted[i]

\* A gate that measures against the last_trade_ts of the state file, not
\* against the variable of the running process.
InCooldownPersisted ==
  COOLDOWN_SECONDS > 0 /\ (now - load_state.last_trade_ts) < COOLDOWN_SECONDS

\* COOLDOWN_SECONDS > 0 and (time.time() - last_trade_ts) < COOLDOWN_SECONDS
InCooldown == COOLDOWN_SECONDS > 0 /\ (now - last_trade_ts) < COOLDOWN_SECONDS

\* max_seen = max(max_seen, mid)
FoldSeen(seen, mid) == Max(seen, mid)

\* A loop that assigns last_id and calls save_state at the end of every
\* iteration, not after the batch.
FinishMessageSavesEach(seen, st) ==
  /\ handled' = handled \cup {CurMid}
  /\ last_id' = seen
  /\ state' = [st EXCEPT !.last_id = seen]
  /\ pc' = "save0"
  /\ NoBatch

\* The end of one iteration of "for m in msgs_sorted" with max_seen at
\* `seen` and the dict state at `st`: the next message, or, after the last
\* one, last_id = str(max_seen), state["last_id"] = last_id and the call of
\* save_state(state).
FinishMessage(seen, st) ==
  /\ handled' = handled \cup {CurMid}
  /\ IF i = Len(msgs_sorted)
       THEN /\ last_id' = seen
            /\ state' = [st EXCEPT !.last_id = seen]
            /\ pc' = "save0"
            /\ NoBatch
       ELSE /\ max_seen' = seen
            /\ i' = i + 1
            /\ UNCHANGED msgs_sorted
            /\ last_id' = last_id
            /\ state' = st
            /\ pc' = "process"

\* A loop without the "except Exception" clause: the error ends main().
HandleRaiseUncaught ==
  /\ pc = "process"
  /\ channel[CurMid] = "bad"
  /\ pc' = "killed"
  /\ Forget
  /\ UNCHANGED <<envv, cfgv, textv, diskv, restarts, histv>>

\* raw = message_text(m) raises: the loop's catch-all takes over.
HandleRaise ==
  /\ pc = "process"
  /\ channel[CurMid] = "bad"
  /\ pc' = "recover"
  /\ NoBatch
  /\ UNCHANGED <<envv, cfgv, textv, diskv, phase, memv, fetchv, postv, restarts, obsv>>

\* A cooldown branch that continues without folding the id into max_seen.
HandleCooldownNoFold ==
  /\ pc = "process"
  /\ channel[CurMid] # "bad"
  /\ InCooldown
  /\ FinishMessage(max_seen, state)
  /\ dropped' = dropped \cup {CurMid}
  /\ UNCHANGED last_trade_ts
  /\ UNCHANGED <<envv, cfgv, textv, diskv, phase, fetchv, postv, restarts, baseline,
                 dispatched, doneAt, fetchedAfter>>

\* Inside the cooldown window: max_seen = max(max_seen, mid); continue.
HandleCooldown ==
  /\ pc = "process"
  /\ channel[CurMid] # "bad"
  /\ InCooldown
  /\ FinishMessage(FoldSeen(max_seen, CurMid), state)
  /\ dropped' = dropped \cup {CurMid}
  /\ UNCHANGED last_trade_ts
  /\ UNCHANGED <<envv, cfgv, textv, diskv, phase, fetchv, postv, restarts, baseline,
                 dispatched, doneAt, fetchedAfter>>

\* Outside the window, raw empty or parse_signal_from_text(raw) is None.
HandleMiss ==
  /\ pc = "process"
  /\ channel[CurMid] = "noise"
  /\ ~InCooldown
  /\ FinishMessage(FoldSeen(max_seen, CurMid), state)
  /\ UNCHANGED last_trade_ts
  /\ UNCHANGED <<envv, cfgv, textv, diskv, phase, fetchv, postv, restarts, baseline,
                 dispatched, doneAt, fetchedAfter, dropped>>

\* build_altrady_open_payload, as far as TEST_MODE reaches: the payload
\* carries "test": True when the flag is set, and is returned either way.
build_altrady_open_payload ==
  IF TEST_MODE THEN [action |-> "open", test |-> TRUE] ELSE [action |-> "open"]

\* Outside the window, a Signal: build the payload(s) and the jobs list,
\* and enter post_to_all_webhooks(jobs) at its first job.
HandleSignal ==
  /\ pc = "process"
  /\ channel[CurMid] = "signal"
  /\ ~InCooldown
  /\ dispatched' = [dispatched EXCEPT ![CurMid] = Min(@ + 1, 2)]
  /\ pc' = "post"
  /\ dest' = 1
  /\ attempt' = 0
  /\ slept' = 0
  /\ tried' = NoPosts
  /\ outcome' = NoOutcome
  /\ UNCHANGED <<envv, cfgv, textv, diskv, phase, memv, fetchv, loopv, restarts,
                 baseline, doneAt, handled, fetchedAfter, dropped>>

\* ------------------------------------------------- post_to_all_webhooks
\* requests.post(url, json=payload, timeout=20) is sent once more.
Sent == [tried EXCEPT ![dest] = @ + 1]

\* A main that reaches max_seen = max(max_seen, mid) and the assignment of
\* last_trade_ts only when the last _post_one returned a response.
NextJobFoldsOnSuccess(how) ==
  IF dest < active_webhooks
    THEN /\ dest' = dest + 1
         /\ attempt' = 0
         /\ slept' = 0
         /\ tried' = Sent
         /\ outcome' = [outcome EXCEPT ![dest] = how]
         /\ UNCHANGED <<pc, memv, loopv, handled, doneAt>>
    ELSE /\ NoPost
         /\ doneAt' = now
         /\ IF how = "returned"
              THEN /\ last_trade_ts' = now
                   /\ FinishMessage(FoldSeen(max_seen, CurMid),
                                    [state EXCEPT !.last_trade_ts = now])
              ELSE /\ last_trade_ts' = last_trade_ts
                   /\ FinishMessage(max_seen, state)

\* _post_one for the current job is over with outcome `how`: the next job,
\* or, after the last one, back in main: last_trade_ts = time.time(),
\* state["last_trade_ts"] = last_trade_ts, max_seen = max(max_seen, mid).
NextJob(how) ==
  IF dest < active_webhooks
    THEN /\ dest' = dest + 1
         /\ attempt' = 0
         /\ slept' = 0
         /\ tried' = Sent
         /\ outcome' = [outcome EXCEPT ![dest] = how]
         /\ UNCHANGED <<pc, memv, loopv, handled, doneAt>>
    ELSE /\ NoPost
         /\ doneAt' = now
         /\ last_trade_ts' = now
         /\ FinishMessage(FoldSeen(max_seen, CurMid),
                          [state EXCEPT !.last_trade_ts = now])

\* wait = 1.5 * (attempt + 1), in milliseconds.
Backoff(n) == BACKOFF_STEP * (n + 1)

\* A retry that does not use up an attempt of range(3).
RetryForever(wait) ==
  /\ attempt' = attempt
  /\ slept' = wait
  /\ tried' = Sent
  /\ UNCHANGED <<pc, dest, outcome, memv, loopv, handled, doneAt>>

\* _post_one sleeps `wait` and goes round its "for attempt in range(3)"
\* once more.
Retry(wait) ==
  /\ attempt' = attempt + 1
  /\ slept' = wait
  /\ tried' = Sent
  /\ UNCHANGED <<pc, dest, outcome, memv, loopv, handled, doneAt>>

\* The POST is answered 204 or another ok status: return r.
PostOk ==
  /\ pc = "post"
  /\ NextJob("returned")
  /\ UNCHANGED <<envv, cfgv, textv, diskv, phase, fetchv, restarts, baseline,
                 dispatched, fetchedAfter, dropped>>

\* The POST is answered 429: sleep, continue with the next attempt of
\* range(3); after the last attempt the for loop ends and _post_one
\* returns None.
Post429 ==
  /\ pc = "post"
  /\ IF attempt + 1 < POST_ATTEMPTS THEN Retry(RATE_LIMIT_WAIT) ELSE NextJob("fellthrough")
  /\ UNCHANGED <<envv, cfgv, textv, diskv, phase, fetchv, restarts, baseline,
                 dispatched, fetchedAfter, dropped>>

\* A post_to_all_webhooks without its try/except: the exception of the
\* last attempt leaves the call and reaches the loop's catch-all.
PostFailAborts ==
  /\ pc = "post"
  /\ IF attempt = POST_ATTEMPTS - 1
       THEN /\ pc' = "recover"
            /\ NoPost
            /\ NoBatch
            /\ UNCHANGED <<memv, handled, doneAt>>
       ELSE Retry(Backoff(attempt))
  /\ UNCHANGED <<envv, cfgv, textv, diskv, phase, fetchv, restarts, baseline,
                 dispatched, fetchedAfter, dropped>>

\* requests.post raises or the answer is not ok (raise_for_status): on
\* attempt 2 the exception is re-raised and post_to_all_webhooks catches
\* it and continues with the next job; before that, back off and retry.
PostFail ==
  /\ pc = "post"
  /\ IF attempt = POST_ATTEMPTS - 1 THEN NextJob("raised") ELSE Retry(Backoff(attempt))
  /\ UNCHANGED <<envv, cfgv, textv, diskv, phase, fetchv, restarts, baseline,
                 dispatched, fetchedAfter, dropped>>

\* ------------------------------------------------------ recovery and sleep
\* except Exception: print, traceback, time.sleep(10); then the finally.
Recover ==
  /\ pc = "recover"
  /\ pc' = "sleep"
  /\ UNCHANGED <<envv, cfgv, textv, diskv, phase, memv, fetchv, loopv, postv, restarts,
                 obsv>>

\* finally: sleep_until_next_tick(); then the next round of while True.
Sleep ==
  /\ pc = "sleep"
  /\ pc' = "loop"
  /\ UNCHANGED <<envv, cfgv, textv, diskv, phase, memv, fetchv, loopv, postv, restarts,
                 obsv>>

\* ------------------------------------------------------------ cancellation
InTryBody == phase = "tick" /\ pc \in {"fetch", "process", "post", "save0", "save1", "save2"}

\* KeyboardInterrupt inside the try body (it passes the "except Exception"
\* clauses of _post_one and post_to_all_webhooks): "except
\* KeyboardInterrupt: break"; the finally sleeps, the loop is left and
\* main() returns.
CancelInTick ==
  /\ InTryBody
  /\ pc' = "exited"
  /\ Forget
  /\ UNCHANGED <<envv, cfgv, textv, diskv, restarts, histv>>

\* KeyboardInterrupt during time.sleep(10) of the except clause or during
\* sleep_until_next_tick() of the finally clause: no handler covers it,
\* main() ends with the exception.
CancelInSleep ==
  /\ pc \in {"recover", "sleep"}
  /\ pc' = "killed"
  /\ Forget
  /\ UNCHANGED <<envv, cfgv, textv, diskv, restarts, histv>>

\* KeyboardInterrupt during the seeding block: its bare "except: pass"
\* swallows it and main() goes on to the loop.
CancelInSeed ==
  /\ phase = "seed"
  /\ pc \in {"fetch", "save0", "save1", "save2"}
  /\ pc' = "loop"
  /\ NoFetch
  /\ UNCHANGED <<envv, cfgv, textv, diskv, phase, memv, loopv, postv, restarts, obsv>>

\* ------------------------------------------------------- crash and restart
\* The process is killed (or the machine loses power) at any point and is
\* started again; only the two files survive.
Crash ==
  /\ pc \notin {"boot", "exited", "killed"}
  /\ restarts < MaxRestarts
  /\ restarts' = restarts + 1
  /\ pc' = "boot"
  /\ Forget
  /\ UNCHANGED <<envv, cfgv, textv, diskv, histv>>

\* The ended process is started again.
Restart ==
  /\ pc \in {"exited", "killed"}
  /\ restarts < MaxRestarts
  /\ restarts' = restarts + 1
  /\ pc' = "boot"
  /\ UNCHANGED <<envv, cfgv, textv, diskv, phase, memv, fetchv, loopv, postv, obsv>>

Next ==
  \/ PostMessage
  \/ ClockTick
  \/ LoadState
  \/ StartTick
  \/ FetchPageOk
  \/ FetchPage429
  \/ FetchError
  \/ SaveWriteBegin
  \/ SaveWriteEnd
  \/ SaveReplace
  \/ SaveError
  \/ HandleRaise
  \/ HandleCooldown
  \/ HandleMiss
  \/ HandleSignal
  \/ PostOk
  \/ Post429
  \/ PostFail
  \/ Recover
  \/ Sleep
  \/ CancelInTick
  \/ CancelInSleep
  \/ CancelInSeed
  \/ Crash
  \/ Restart

Spec == Init /\ [][Next]_vars

\* ------------------------------------------------------------- progress
\* The poll loop left to run: nobody kills or interrupts the process, the
\* disk takes every write, one webhook is configured and the cooldown is
\* off.  The channel endpoint may fail, but not for ever.
InitLive ==
  /\ Init
  /\ COOLDOWN_SECONDS = 0
  /\ active_webhooks = 1
  /\ TEST_MODE = FALSE

NextLive ==
  \/ PostMessage
  \/ LoadState
  \/ StartTick
  \/ FetchPageOk
  \/ FetchError
  \/ SaveWriteBegin
  \/ SaveWriteEnd
  \/ SaveReplace
  \/ HandleRaise
  \/ HandleMiss
  \/ HandleSignal
  \/ PostOk
  \/ PostFail
  \/ Recover
  \/ Sleep

\* The process takes its next step (the interpreter runs, sleeps end, a
\* POST is answered one way or the other), and a fetch that is tried again
\* and again is in the end answered with its pages.
Fairness ==
  /\ WF_vars(LoadState)
  /\ WF_vars(StartTick)
  /\ WF_vars(SaveWriteBegin \/ SaveWriteEnd \/ SaveReplace)
  /\ WF_vars(HandleRaise \/ HandleMiss \/ HandleSignal)
  /\ WF_vars(PostOk \/ PostFail)
  /\ WF_vars(Recover)
  /\ WF_vars(Sleep)
  /\ WF_vars(FetchPageOk \/ FetchError)
  /\ SF_vars(FetchPageOk)
  /\ SF_vars(FetchPageOk /\ pc' # "fetch")

SpecLive == InitLive /\ [][NextLive]_vars /\ Fairness

\* ======================================================== clean_markdown
\* Strings are sequences of characters.  "amp;" stands for those four
\* characters in a row, so that <<"&", "amp;">> is the entity &amp; and
\* <<"&", "amp;", "amp;">> is the text &amp;amp;.
Chars == {"a", "*", "[", "]", "(", ")", " ", "\n", "&", "amp;"}
LinkChars == {"a", "*", "[", "]", "(", ")"}

Strings ==
  UNION {[1..n -> Chars] : n \in 0..MaxLen}
    \cup UNION {[1..n -> LinkChars] : n \in (MaxLen + 1)..MaxLinkLen}

\* MD_MARK: runs of the emphasis characters (star, underscore, tilde; the
\* backquote of the class is left out of the model).
Marks == {"*", "_", "~"}
\* MULTI_WS: runs of space, tab or no-break space (the model has the first two).
Blank == {" ", "\t"}
\* what str.strip() removes
White == Blank \cup {"\n", "\r"}

\* s with the characters of C deleted.
Without(s, C) == SelectSeq(s, LAMBDA c : c \notin C)

\* Index of the first c in s, 0 if there is none.
First(s, c) ==
  IF \E k \in DOMAIN s : s[k] = c
    THEN CHOOSE k \in DOMAIN s : s[k] = c /\ \A j \in 1..(k - 1) : s[j] # c
    ELSE 0

\* html.unescape: one pass from the left, &amp; becomes &.
RECURSIVE html_unescape(_)
html_unescape(s) ==
  IF s = <<>> THEN <<>>
  ELSE IF Len(s) >= 2 /\ s[1] = "&" /\ s[2] = "amp;"
    THEN <<"&">> \o html_unescape(SubSeq(s, 3, Len(s)))
    ELSE <<Head(s)>> \o html_unescape(Tail(s))

\* MD_LINK.sub(r"\1", s) with MD_LINK = \[([^\]]+)\]\((?:[^)]+)\): from the
\* left, a "[" whose first following "]" comes after at least one character
\* and is followed by "(", at least one character and the first ")" after
\* them, is replaced by the text between the brackets; the scan goes on
\* behind the ")".
RECURSIVE md_link_sub(_)
md_link_sub(s) ==
  IF s = <<>> THEN <<>>
  ELSE
    LET q == First(s, "]")
        r == IF q > 0 /\ q < Len(s) THEN First(SubSeq(s, q + 2, Len(s)), ")") ELSE 0
        hit == s[1] = "[" /\ q >= 3 /\ q < Len(s) /\ s[q + 1] = "(" /\ r >= 2
    IN IF hit THEN SubSeq(s, 2, q - 1) \o md_link_sub(SubSeq(s, q + 2 + r, Len(s)))
              ELSE <<Head(s)>> \o md_link_sub(Tail(s))

RECURSIVE LStrip(_, _)
LStrip(s, C) == IF s # <<>> /\ Head(s) \in C THEN LStrip(Tail(s), C) ELSE s

RECURSIVE RStrip(_, _)
RStrip(s, C) ==
  IF s # <<>> /\ s[Len(s)] \in C THEN RStrip(SubSeq(s, 1, Len(s) - 1), C) ELSE s

\* str.strip()
Strip(s) == RStrip(LStrip(s, White), White)

\* MULTI_WS.sub(" ", s): every run of blanks becomes one space.
RECURSIVE multi_ws_sub(_)
multi_ws_sub(s) ==
  IF s = <<>> THEN <<>>
  ELSE IF Head(s) \in Blank
    THEN <<" ">> \o multi_ws_sub(LStrip(Tail(s), Blank))
    ELSE <<Head(s)>> \o multi_ws_sub(Tail(s))

\* "\n".join(line.strip() for line in s.split("\n"))
RECURSIVE strip_lines(_)
strip_lines(s) ==
  LET n == First(s, "\n") IN
    IF n = 0 THEN Strip(s)
    ELSE Strip(SubSeq(s, 1, n - 1)) \o <<"\n">> \o strip_lines(SubSeq(s, n + 1, Len(s)))

clean_markdown(s) ==
  IF s = <<>> THEN <<>>
  ELSE Strip(strip_lines(multi_ws_sub(Without(md_link_sub(html_unescape(
         Without(s, {"\r"}))), Marks))))

\* The poll loop's variables, and a process that is not under study.
pgmv == <<envv, cfgv, diskv, pc, phase, memv, fetchv, loopv, postv, restarts, obsv>>
ProgramOff ==
  /\ ProgramInit
  /\ COOLDOWN_SECONDS = 0
  /\ active_webhooks = 1
  /\ TEST_MODE = FALSE

InitClean ==
  /\ ProgramOff
  /\ ParseIdle
  /\ BybitIdle
  /\ str \in Strings
  /\ before = <<>>
  /\ napplied = 0

\* s = clean_markdown(s)
Clean ==
  /\ napplied < MaxApplied
  /\ before' = str
  /\ str' = clean_markdown(str)
  /\ napplied' = napplied + 1
  /\ UNCHANGED <<pgmv, parsev, bybitv>>

NextClean == Clean

SpecClean == InitClean /\ [][NextClean]_vars

\* ================================================= parse_signal_from_text
\* A message text is a sequence of lines, a line being one of the shapes the
\* patterns react to.  num holds the characters that stand where the
\* pattern expects NUM.
Line(k, base, side, num) == [k |-> k, base |-> base, side |-> side, num |-> num]

Digits == {"0", "1", "2", "5", "7"}
DigitVal == [c \in Digits |->
               CASE c = "0" -> 0 [] c = "1" -> 1 [] c = "2" -> 2 [] c = "5" -> 5 [] c = "7" -> 7]

\* What stands after "Entry:" in the texts of the model.
ColonNums == {<<"0">>, <<"0", ".", "0">>, <<"1", ",", "2">>, <<"2", ".", "5">>, <<"-", "5">>}

Lines ==
  {Line("slash", "BTC", "long", <<>>),     \* BTC/USDT LONG
   Line("old", "ETH", "short", <<>>),      \* ETH SHORT Signal
   Line("coin", "SOL", "", <<>>),          \* Coin: SOL
   Line("dir", "", "long", <<>>),          \* Direction: LONG
   Line("trigger", "", "", <<"5">>),       \* Enter on Trigger: $5
   Line("section", "", "", <<>>),          \* ENTRY
   Line("number", "", "", <<"7">>),        \* 7
   Line("noise", "", "", <<>>)}            \* anything else
    \cup {Line("colon", "", "", n) : n \in ColonNums}   \* Entry: n

Texts == UNION {[1..n -> Lines] : n \in 0..MaxLines}

\* The longest prefix of s made of characters of C.
RECURSIVE TakeWhile(_, _)
TakeWhile(s, C) ==
  IF s # <<>> /\ Head(s) \in C THEN <<Head(s)>> \o TakeWhile(Tail(s), C) ELSE <<>>

\* NUM = ([0-9][0-9,]*\.?[0-9]*) matched at the start of s: the matched
\* characters, <<>> when s does not start with a digit.
NUM(s) ==
  IF s = <<>> \/ s[1] \notin Digits THEN <<>>
  ELSE LET a == <<s[1]>> \o TakeWhile(Tail(s), Digits \cup {","})
           rest == SubSeq(s, Len(a) + 1, Len(s))
       IN IF rest # <<>> /\ rest[1] = "."
            THEN a \o <<".">> \o TakeWhile(Tail(rest), Digits)
            ELSE a

\* int() of a run of digits.
RECURSIVE DigitsVal(_)
DigitsVal(s) ==
  IF s = <<>> THEN 0 ELSE 10 * DigitsVal(SubSeq(s, 1, Len(s) - 1)) + DigitVal[s[Len(s)]]

\* to_price: float(s.replace(",", "")), in tenths (the texts of the model
\* have at most one decimal place).
to_price(s) ==
  LET t == Without(s, {","})
      d == First(t, ".")
      whole == IF d = 0 THEN t ELSE SubSeq(t, 1, d - 1)
      frac  == IF d = 0 THEN <<>> ELSE SubSeq(t, d + 1, Len(t))
  IN 10 * DigitsVal(whole) + (IF frac = <<>> THEN 0 ELSE DigitVal[frac[1]])

\* rx.search(txt) as far as the line is concerned: of the indexes S of the
\* lines the pattern matches at, the first one, 0 if there is none.
FirstLine(S) == IF S = {} THEN 0 ELSE CHOOSE n \in S : \A j \in S : n <= j

NoHeader == [base |-> "", side |-> ""]

\* find_base_side: HDR_SLASH_PAIR, then PAIR_LINE_OLD, then HDR_COIN_DIR
\* ("Coin: X" with a "Direction: D" anywhere behind it).
find_base_side(txt) ==
  LET mh == FirstLine({n \in DOMAIN txt : txt[n].k = "slash"})
      mo == FirstLine({n \in DOMAIN txt : txt[n].k = "old"})
      mc == FirstLine({n \in DOMAIN txt :
                         /\ txt[n].k = "coin"
                         /\ \E d \in DOMAIN txt : d > n /\ txt[d].k = "dir"})
      md == FirstLine({n \in DOMAIN txt : n > mc /\ txt[n].k = "dir"})
  IN IF mh # 0 THEN [base |-> txt[mh].base, side |-> txt[mh].side]
     ELSE IF mo # 0 THEN [base |-> txt[mo].base, side |-> txt[mo].side]
     ELSE IF mc # 0 THEN [base |-> txt[mc].base, side |-> txt[md].side]
     ELSE NoHeader

\* A find_entry that takes the rule whose match stands first in the text.
find_entry_first_in_text(txt) ==
  LET S == {n \in DOMAIN txt :
              \/ txt[n].k \in {"trigger", "colon"} /\ NUM(txt[n].num) # <<>>
              \/ /\ txt[n].k = "section"
                 /\ n < Len(txt)
                 /\ txt[n + 1].k = "number"
                 /\ NUM(txt[n + 1].num) # <<>>}
      m == FirstLine(S)
  IN IF m = 0 THEN NoPrice
     ELSE IF txt[m].k = "section" THEN to_price(NUM(txt[m + 1].num))
     ELSE to_price(NUM(txt[m].num))

\* find_entry: ENTER_ON_TRIGGER, then ENTRY_COLON, then ENTRY_SECTION (the
\* word ENTRY alone on a line and the number on the next one).
find_entry(txt) ==
  LET mt == FirstLine({n \in DOMAIN txt : txt[n].k = "trigger" /\ NUM(txt[n].num) # <<>>})
      mc == FirstLine({n \in DOMAIN txt : txt[n].k = "colon" /\ NUM(txt[n].num) # <<>>})
      ms == FirstLine({n \in DOMAIN txt :
                         /\ txt[n].k = "section"
                         /\ n < Len(txt)
                         /\ txt[n + 1].k = "number"
                         /\ NUM(txt[n + 1].num) # <<>>})
  IN IF mt # 0 THEN to_price(NUM(txt[mt].num))
     ELSE IF mc # 0 THEN to_price(NUM(txt[mc].num))
     ELSE IF ms # 0 THEN to_price(NUM(txt[ms + 1].num))
     ELSE NoPrice

\* A parse_signal_from_text without the "if entry is None" return.
parse_signal_unchecked_entry(txt) ==
  LET h == find_base_side(txt) IN
    IF h.base = "" \/ h.side = "" THEN NoSignal
    ELSE [base |-> h.base, side |-> h.side, entry |-> find_entry(txt)]

parse_signal_from_text(txt) ==
  LET h == find_base_side(txt) IN
    IF h.base = "" \/ h.side = "" THEN NoSignal
    ELSE LET entry == find_entry(txt) IN
           IF entry = NoPrice THEN NoSignal
           ELSE [base |-> h.base, side |-> h.side, entry |-> entry]

\* One message of a batch, outside the cooldown window, with raw =
\* message_text(m).
InitParse ==
  /\ ProgramOff
  /\ CleanIdle
  /\ BybitIdle
  /\ raw \in Texts
  /\ sig = NoSignal
  /\ ppc = "parse"
  /\ posts = 0
  /\ folded = FALSE

\* if raw: sig = parse_signal_from_text(raw)
ParseMessage ==
  /\ ppc = "parse"
  /\ sig' = IF raw # <<>> THEN parse_signal_from_text(raw) ELSE NoSignal
  /\ ppc' = "gate"
  /\ UNCHANGED <<pgmv, cleanv, bybitv, raw, posts, folded>>

\* if sig: build the payload(s) from sig and call post_to_all_webhooks(jobs).
DispatchSignal ==
  /\ ppc = "gate"
  /\ sig # NoSignal
  /\ posts' = posts + 1
  /\ ppc' = "fold"
  /\ UNCHANGED <<pgmv, cleanv, bybitv, raw, sig, folded>>

\* sig is None (or raw was empty): nothing is built or posted.
SkipMiss ==
  /\ ppc = "gate"
  /\ sig = NoSignal
  /\ ppc' = "fold"
  /\ UNCHANGED <<pgmv, cleanv, bybitv, raw, sig, posts, folded>>

\* max_seen = max(max_seen, mid)
FoldId ==
  /\ ppc = "fold"
  /\ folded' = TRUE
  /\ ppc' = "done"
  /\ UNCHANGED <<pgmv, cleanv, bybitv, raw, sig, posts>>

NextParse ==
  \/ ParseMessage
  \/ DispatchSignal
  \/ SkipMiss
  \/ FoldId

SpecParse == InitParse /\ [][NextParse]_vars

\* ============================== discord_to_bybit.py: one message of a batch
\* The texts of parse_signal_from_text, with a "TP1: 2" line beside the
\* other shapes.
BybitLines == Lines \cup {Line("tp1", "", "", <<"2">>)}
BybitTexts == UNION {[1..n -> BybitLines] : n \in 0..MaxLines}

\* find_tp_dca, as far as build_and_place_bybit_order reads it: tps[0].
find_tp1(txt) ==
  LET m == FirstLine({n \in DOMAIN txt : txt[n].k = "tp1" /\ NUM(txt[n].num) # <<>>})
  IN IF m # 0 THEN to_price(NUM(txt[m].num)) ELSE NoPrice

NoBybitSignal == [base |-> "", side |-> "", entry |-> 0, tp1 |-> NoPrice]

\* parse_signal_from_text of discord_to_bybit.py: the Signal of main.py
\* with the optional fields (tp1 of them).
bybit_parse_signal_from_text(txt) ==
  LET h == find_base_side(txt) IN
    IF h.base = "" \/ h.side = "" THEN NoBybitSignal
    ELSE LET entry == find_entry(txt) IN
           IF entry = NoPrice THEN NoBybitSignal
           ELSE [base |-> h.base, side |-> h.side, entry |-> entry, tp1 |-> find_tp1(txt)]

\* calc_qty_from_risk, in millionths of a coin (entry is in tenths).
calc_qty_from_risk(entry) ==
  IF entry <= 0 THEN 0
  ELSE Max((RISK_USDT * LEVERAGE * 10 * QTY_UNIT) \div entry, 0)

\* build_and_place_bybit_order: the early returns (no TP1, qty <= 0,
\* TEST_MODE) and the call of bybit.place_order, whose exception is caught
\* inside the function.
build_and_place_bybit_order(s) ==
  IF s.tp1 = NoPrice THEN orders' = orders
  ELSE IF calc_qty_from_risk(s.entry) <= 0 THEN orders' = orders
  ELSE IF TEST_MODE THEN orders' = orders
  ELSE orders' = orders + 1

\* sig and sig.get("entry")
BybitGate == sig # NoBybitSignal /\ sig.entry # 0

\* One message of a batch, outside the cooldown window, with raw =
\* message_text(m); last_trade_ts is the initial 0.0.
InitBybit ==
  /\ ProgramInit
  /\ COOLDOWN_SECONDS = 0
  /\ active_webhooks = 1
  /\ CleanIdle
  /\ raw \in BybitTexts
  /\ sig = NoBybitSignal
  /\ ppc = "parse"
  /\ posts = 0
  /\ folded = FALSE
  /\ RISK_USDT \in {0, RISK_DEFAULT}
  /\ orders = 0

\* What the loop body of discord_to_bybit.py leaves alone.
bybitframe == <<envv, cfgv, diskv, pc, phase, last_id, fetchv, loopv, postv, restarts,
                obsv, cleanv, raw, posts, RISK_USDT>>

\* if raw: sig = parse_signal_from_text(raw)
BybitParse ==
  /\ ppc = "parse"
  /\ sig' = IF raw # <<>> THEN bybit_parse_signal_from_text(raw) ELSE NoBybitSignal
  /\ ppc' = "gate"
  /\ UNCHANGED <<bybitframe, last_trade_ts, state, folded, orders>>

\* if sig and sig.get("entry"): build_and_place_bybit_order(sig);
\* last_trade_ts = time.time(); state["last_trade_ts"] = last_trade_ts
BybitDispatch ==
  /\ ppc = "gate"
  /\ BybitGate
  /\ build_and_place_bybit_order(sig)
  /\ last_trade_ts' = now
  /\ state' = [state EXCEPT !.last_trade_ts = now]
  /\ ppc' = "fold"
  /\ UNCHANGED <<bybitframe, sig, folded>>

\* No Signal, or an entry of 0.0: nothing is built.
BybitSkip ==
  /\ ppc = "gate"
  /\ ~BybitGate
  /\ ppc' = "fold"
  /\ UNCHANGED <<bybitframe, last_trade_ts, state, sig, folded, orders>>

\* max_seen = max(max_seen, mid)
BybitFold ==
  /\ ppc = "fold"
  /\ folded' = TRUE
  /\ ppc' = "done"
  /\ UNCHANGED <<bybitframe, last_trade_ts, state, sig, orders>>

NextBybit ==
  \/ BybitParse
  \/ BybitDispatch
  \/ BybitSkip
  \/ BybitFold

SpecBybit == InitBybit /\ [][NextBybit]_vars

\* ================================================================ claims

\* C1: no message is dispatched more than once: across ticks, per-tick
\* errors and crash-and-restart, post_to_all_webhooks is entered at most
\* once per message.
C1_AtMostOnce == \A m \in 1..MaxMsg : dispatched[m] <= 1

\* C2: the cursor never goes back: the persisted last_id never decreases,
\* and the cursor a tick's fetch starts from is never below the cursor an
\* earlier tick's fetch started from, also after a restart reloaded the
\* persisted state (a null cursor counts as no cursor, not as a smaller one).
C2_CursorMonotone ==
  [][ /\ PersistedId' >= PersistedId
      /\ (fetchedAfter' # None => fetchedAfter' >= fetchedAfter) ]_vars

\* C3: no message is silently lost: a message that arrived after the
\* seeding request was answered (so it is newer than the seeded cursor) and
\* that the persisted last_id has reached has been through the processing
\* loop of some tick.  Stated for the first run of the process, where the
\* seeding happens once; the claim extends it to restarts.
C3_NoLoss ==
  restarts = 0 =>
    \A m \in Ids : (m > baseline /\ PersistedId >= m) => m \in handled

\* C4: a message handled inside a positive cooldown window is folded into
\* the cursor of its tick, and nothing is built or sent for it.
Iterated == pc = "process" /\ (pc' = "save0" \/ (pc' = "process" /\ i' = i + 1))
CoolingDown == COOLDOWN_SECONDS > 0 /\ now - last_trade_ts < COOLDOWN_SECONDS
C4_CooldownFolds ==
  [][ (pc = "process" /\ CoolingDown) =>
        /\ pc' # "post"
        /\ dispatched' = dispatched
        /\ tried' = tried
        /\ Iterated => IF pc' = "save0" THEN last_id' >= CurMid /\ state'.last_id >= CurMid
                                        ELSE max_seen' >= CurMid ]_vars

\* C4 witness: inside a batch, the previous message was a signal, the window
\* is still open, nothing was ever sent for it, and max_seen has reached it.
C4_Witness ==
  /\ pc = "process" /\ i > 1 /\ CoolingDown
  /\ channel[msgs_sorted[i - 1]] = "signal"
  /\ dispatched[msgs_sorted[i - 1]] = 0
  /\ msgs_sorted[i - 1] \in handled
  /\ max_seen >= msgs_sorted[i - 1]

\* C5: with two webhooks, a failed delivery to the first (exception on the
\* last attempt, or attempts used up) hands over to the second, and
\* post_to_all_webhooks returns only out of the POST to the last webhook,
\* every earlier webhook having been posted to.
FailedOutcomes == {"raised", "fellthrough"}
C5_SecondStillTried ==
  [][ /\ (pc = "post" /\ outcome[1] = "none" /\ outcome'[1] \in FailedOutcomes)
         => (active_webhooks = 2 /\ pc' = "post" /\ dest' = 2 /\ attempt' = 0)
      /\ (pc = "post" /\ pc' \in {"process", "save0", "recover", "sleep", "loop"})
         => (dest = active_webhooks /\ \A d \in 1..(dest - 1) : tried[d] >= 1) ]_vars

\* C5 witness: the first webhook failed and a POST went to the second.
C5_Witness ==
  /\ pc = "post" /\ active_webhooks = 2 /\ dest = 2
  /\ outcome[1] \in FailedOutcomes
  /\ tried[2] >= 1

\* C6: cancellation takes effect only between ticks and ends the loop
\* cleanly: the loop is left only from the inter-tick sleep, by a normal
\* return of main().
C6_CancelBetweenTicks ==
  [][ (pc \notin {"exited", "killed"} /\ pc' \in {"exited", "killed"})
        => (pc = "sleep" /\ pc' = "exited") ]_vars

\* C7: an error raised while a tick fetches, processes or saves leads to
\* the recovery pause, the pause to the inter-tick sleep, the sleep to a new
\* tick; out of the try body the loop is never left by an exception.
TickError == HandleRaise \/ (phase = "tick" /\ (FetchError \/ SaveError))
C7_LoopSurvivesErrors ==
  [][ /\ TickError => pc' = "recover"
      /\ InTryBody => pc' \in {"fetch", "process", "post", "save0", "save1", "save2",
                               "sleep", "recover", "exited", "boot"}
      /\ pc = "recover" => pc' \in {"recover", "sleep", "killed", "boot"}
      /\ pc = "sleep" => pc' \in {"sleep", "loop", "killed", "boot"}
      /\ pc = "loop" => (pc' \in {"loop", "boot"} \/ (pc' = "fetch" /\ phase' = "tick")) ]_vars

\* C7 witness: the loop is in its recovery pause after an error of a tick,
\* and without any restart a message was dispatched twice before, so an
\* earlier tick had already ended in an error and a later tick ran.
C7_Witness ==
  /\ pc = "recover" /\ phase = "tick" /\ restarts = 0
  /\ \E m \in 1..MaxMsg : dispatched[m] = 2

\* C8: the state file is absent or complete at every moment, also when a
\* crash falls inside save_state, and it changes only by the rename that
\* installs the whole dict the running save_state call was given.
C8_AtomicSave ==
  /\ [](stateFile.exists => stateFile.complete)
  /\ [][ stateFile' # stateFile =>
           (pc = "save2" /\ stateFile' = FileOf(state) /\ tmpFile' = Absent) ]_vars

\* C8 witness: a restart finds a half-written temporary file beside a
\* complete state file.
C8_Witness ==
  /\ pc = "boot" /\ restarts >= 1
  /\ tmpFile = Partial
  /\ stateFile.exists /\ stateFile.complete /\ stateFile.last_id # None

\* C9: a message that existed before the first run is never dispatched,
\* whatever the outcome of the seeding fetch.
C9_NoHistoryDispatched ==
  \A m \in 1..MaxMsg : m <= baseline => dispatched[m] = 0

\* C10: a _post_one whose attempts are used up without a success ends in an
\* exception, never in a normal return.
C10_ExhaustedRaises ==
  \A d \in 1..2 : outcome[d] # "fellthrough"

\* C11: paging of fetch_messages_after.  While a fetch runs, the requests it
\* has had answered are one per full page collected plus one per 429, so k
\* full pages followed by a short page take exactly k+1 requests when no 429
\* comes between (one full page and a short one: two).  After a full page
\* the next request carries after = the page's maximum id and the same
\* limit, and collected grows by the page; the short page ends the fetch,
\* and the tick then holds the union of all pages sorted ascending by id.
IsAscending(s) == \A j, k \in DOMAIN s : j < k => s[j] < s[k]
C11_PagedFetch ==
  /\ [](pc = "fetch" => nreq = (Len(collected) \div params.limit) + nlimited)
  /\ [][ FetchPageOk =>
          LET page == ServerPage(params.after, params.limit) IN
            IF Len(page) = params.limit
              THEN /\ pc' = "fetch"
                   /\ params' = [after |-> SetMax(Range(page)), limit |-> params.limit]
                   /\ collected' = collected \o page
                   /\ nreq' = nreq + 1
              ELSE /\ pc' # "fetch"
                   /\ (phase = "tick" /\ collected \o page # <<>>) =>
                        /\ pc' = "process"
                        /\ IsAscending(msgs_sorted')
                        /\ Range(msgs_sorted') = Range(collected) \cup Range(page)
                        /\ Len(msgs_sorted') = Len(collected) + Len(page) ]_vars

\* C11 witness: a tick's fetch has had exactly one request answered, a full
\* page delivered newest first; the second request carries the page's
\* maximum id and will be answered by a short page.
C11_Witness ==
  /\ pc = "fetch" /\ phase = "tick"
  /\ nreq = 1 /\ nlimited = 0
  /\ Len(collected) = params.limit
  /\ ~IsAscending(collected)
  /\ params.after = SetMax(Range(collected))
  /\ Len(ServerPage(params.after, params.limit)) < params.limit

\* C12: with TEST_MODE set (the payload then carries "test"), no POST is
\* sent to any destination in any tick.
C12_DryRunNoDelivery ==
  (TEST_MODE /\ build_altrady_open_payload.test) => tried = NoPosts

\* C16: a message the cooldown gate skipped is never reprocessed: no
\* message that is being handled, or is still to be handled, in the batch
\* of a tick was skipped by the gate before.
C16_DroppedStaysDropped ==
  pc \in {"process", "post"} =>
    \A k \in i..Len(msgs_sorted) : msgs_sorted[k] \notin dropped

\* C17: a POST answered 429 is followed by a retry of the same request (the
\* same destination, post_to_all_webhooks still running) and does not use
\* up one of the attempts of range(3).
C17_RateLimitKeepsBudget ==
  [][ Post429 => (pc' = "post" /\ dest' = dest /\ attempt' = attempt) ]_vars

\* C18: one call of _post_one sends at most three POSTs and ends.  While
\* the call runs, the POSTs already answered number `attempt` <= 2, so the
\* one now due is at most the third; every step of the call ends it or
\* moves on to the next attempt; a failed attempt is followed by a wait of
\* 1.5 s times the number of the attempt just made (1.5 s, 3.0 s) when
\* another attempt follows, and by no wait when it was the last.
C18_BoundedPosts ==
  /\ [](pc = "post" => /\ dest \in 1..active_webhooks
                       /\ attempt \in 0..(POST_ATTEMPTS - 1)
                       /\ tried[dest] = attempt
                       /\ (attempt = 0 => slept = 0))
  /\ [][ pc = "post" =>
            \/ pc' # "post"
            \/ dest' = dest + 1 /\ attempt' = 0
            \/ dest' = dest /\ attempt' = attempt + 1 ]_vars
  /\ [][ PostFail =>
            IF attempt < POST_ATTEMPTS - 1
              THEN /\ pc' = "post" /\ dest' = dest /\ attempt' = attempt + 1
                   /\ slept' = 1500 * attempt'
              ELSE /\ slept' = 0
                   /\ (pc' # "post" \/ dest' = dest + 1) ]_vars

\* C18 witness: two POSTs to a destination have failed, 3.0 s of backoff
\* have passed after the second, and the third POST is due.
C18_Witness ==
  pc = "post" /\ attempt = 2 /\ tried[dest] = 2 /\ slept = 3000

\* C19: a page request answered 429 leaves the fetch where it was: the same
\* after and limit for the next request, nothing added to collected, the
\* in-memory cursor and state and both files untouched.  While a fetch
\* runs, its parameters change only by a full page that was answered, and
\* then to that page's maximum id.
C19_RateLimitedFetchFrame ==
  /\ [][ FetchPage429 =>
            /\ pc' = "fetch" /\ phase' = phase
            /\ params' = params
            /\ collected' = collected
            /\ last_id' = last_id /\ state' = state
            /\ stateFile' = stateFile /\ tmpFile' = tmpFile ]_vars
  /\ [][ (pc = "fetch" /\ pc' = "fetch" /\ params' # params) =>
            LET page == ServerPage(params.after, params.limit) IN
              /\ Len(page) = params.limit
              /\ params' = [after |-> SetMax(Range(page)), limit |-> params.limit]
              /\ nlimited' = nlimited ]_vars

\* C19 witness: a tick's fetch has collected one full page and has had one
\* 429; the request now due still carries the page's maximum id.
C19_Witness ==
  /\ pc = "fetch" /\ phase = "tick"
  /\ nlimited = 1 /\ nreq = 2
  /\ Len(collected) = params.limit
  /\ params.after = SetMax(Range(collected))

\* C20: within a tick the messages are handled in ascending id order, one
\* after the other: the batch is strictly ascending while it is processed,
\* the loop position moves on by one only when the current message is done,
\* and while post_to_all_webhooks runs for a message the position stays,
\* the destinations are taken in order 1, 2, and the call is left only
\* after the last configured destination.
C20_InOrderSequential ==
  /\ [](pc \in {"process", "post"} =>
          /\ i \in 1..Len(msgs_sorted)
          /\ \A j, k \in 1..Len(msgs_sorted) : j < k => msgs_sorted[j] < msgs_sorted[k])
  /\ [][ (pc \in {"process", "post"} /\ pc' \in {"process", "post"}) =>
            /\ msgs_sorted' = msgs_sorted
            /\ (pc = "process" /\ pc' = "process") => i' = i + 1
            /\ (pc = "process" /\ pc' = "post") => (i' = i /\ dest' = 1)
            /\ (pc = "post" /\ pc' = "post") => (i' = i /\ dest' \in {dest, dest + 1})
            /\ (pc = "post" /\ pc' = "process") => (i' = i + 1 /\ dest = active_webhooks) ]_vars
  /\ [][ (pc = "post" /\ pc' = "save0") =>
            (dest = active_webhooks /\ i = Len(msgs_sorted)) ]_vars

\* C20 witness: a batch fetched without "after" (its page came newest
\* first) is being processed; the first message was dispatched, and the
\* second is now being posted to the second destination.
C20_Witness ==
  /\ pc = "post" /\ active_webhooks = 2 /\ dest = 2
  /\ fetchedAfter = None
  /\ i = 2 /\ dispatched[msgs_sorted[1]] >= 1

\* C13: clean_markdown is idempotent: applied to its own result it returns
\* that result unchanged.
C13_Idempotent == napplied >= 2 => str = before

\* C14: a message yields a Signal, and post_to_all_webhooks is called for
\* it, only if its text has a header the cascade recovers asset and
\* direction from and an entry the cascade recovers a price from; a message
\* missing either yields no Signal and no call, and the loop body still
\* reaches max_seen = max(max_seen, mid).
HeaderRecoverable ==
  \E n \in DOMAIN raw :
    \/ raw[n].k \in {"slash", "old"}
    \/ raw[n].k = "coin" /\ \E d \in DOMAIN raw : d > n /\ raw[d].k = "dir"
EntryRecoverable ==
  \E n \in DOMAIN raw :
    \/ raw[n].k \in {"trigger", "colon"} /\ raw[n].num # <<>> /\ raw[n].num[1] \in Digits
    \/ /\ raw[n].k = "section" /\ n < Len(raw)
       /\ raw[n + 1].k = "number" /\ raw[n + 1].num[1] \in Digits
C14_SignalNeedsBoth ==
  /\ ppc \in {"gate", "fold", "done"} =>
       (sig # NoSignal <=> (HeaderRecoverable /\ EntryRecoverable))
  /\ posts > 0 => (HeaderRecoverable /\ EntryRecoverable)
  /\ (ppc = "done" /\ ~(HeaderRecoverable /\ EntryRecoverable)) =>
       (sig = NoSignal /\ posts = 0 /\ folded)

\* C14 witness: a text with a header but no entry went through the loop
\* body: nothing was posted and the id was folded.
C14_Witness ==
  ppc = "done" /\ HeaderRecoverable /\ ~EntryRecoverable /\ posts = 0 /\ folded

\* C15: a Signal that reaches the payload builder has a strictly positive
\* entry price.
C15_EntryPositive == posts > 0 => sig.entry > 0

\* C21: in the poll loop the state file is written once per tick that
\* fetched a batch and ran without error, after the whole batch: save_state
\* is entered only out of the last message of the batch, every message of
\* the batch having been handled; once entered it ends the tick, by the
\* one rename that installs the tick's state or by an error; a tick whose
\* fetch returned nothing, or failed, or whose batch raised on a message,
\* goes to the sleep or the recovery pause with both files as they were,
\* and nothing outside save_state touches the files.
SavePcs == {"save0", "save1", "save2"}
C21_SaveOncePerTick ==
  /\ [][ (phase = "tick" /\ pc \notin SavePcs /\ pc' \in SavePcs) =>
            /\ pc \in {"process", "post"} /\ pc' = "save0"
            /\ i = Len(msgs_sorted)
            /\ \A k \in 1..Len(msgs_sorted) : msgs_sorted[k] \in handled'
            /\ state'.last_id = last_id' /\ last_id' >= msgs_sorted[i] ]_vars
  /\ [][ (phase = "tick" /\ pc \in SavePcs) =>
            \/ pc' = pc /\ diskv' = diskv
            \/ pc = "save0" /\ pc' = "save1" /\ stateFile' = stateFile
            \/ pc = "save1" /\ pc' = "save2" /\ stateFile' = stateFile
            \/ pc = "save2" /\ pc' = "sleep" /\ stateFile' = FileOf(state)
            \/ pc' \in {"recover", "exited", "boot"} /\ diskv' = diskv ]_vars
  /\ [][ (phase = "tick" /\ pc = "fetch" /\ pc' # "fetch") =>
            /\ diskv' = diskv
            /\ pc' = "sleep" <=> FetchPageOk /\ collected = <<>>
                                   /\ ServerPage(params.after, params.limit) = <<>>
            /\ pc' \in {"sleep", "process", "recover", "exited", "boot"} ]_vars
  /\ [][ HandleRaise => (pc' = "recover" /\ diskv' = diskv) ]_vars
  /\ [][ pc \notin SavePcs => diskv' = diskv ]_vars

\* C21 witness: in the first life of the process a tick handled a message
\* newer than the cursor and then raised on a later message of the batch:
\* the loop is in its recovery pause, and the cursor in memory and on disk
\* is the one the tick started from.
C21_Witness ==
  /\ pc = "recover" /\ phase = "tick" /\ restarts = 0
  /\ last_id = fetchedAfter /\ PersistedId = last_id /\ last_id # None
  /\ \E m \in handled : m > last_id

\* C22: a delivery that fails for good on a destination (the exception of
\* the last attempt, or the attempts used up by 429 answers) never aborts
\* the tick: post_to_all_webhooks goes on to the next destination, and after
\* the last destination the loop goes on to the next message of the batch
\* with max_seen at or beyond the failed message, or, the message being the
\* last, to save_state with last_id at or beyond it; out of
\* post_to_all_webhooks the loop never reaches the recovery pause.
DeliveryFails == pc = "post" /\ attempt = POST_ATTEMPTS - 1 /\ (PostFail \/ Post429)
C22_FailureNotFatal ==
  /\ [][ DeliveryFails =>
            IF dest < active_webhooks
              THEN /\ pc' = "post" /\ dest' = dest + 1 /\ attempt' = 0
                   /\ outcome'[dest] \in FailedOutcomes
                   /\ loopv' = loopv /\ memv' = memv
              ELSE IF i < Len(msgs_sorted)
                THEN /\ pc' = "process" /\ i' = i + 1
                     /\ msgs_sorted' = msgs_sorted
                     /\ max_seen' >= CurMid
                     /\ CurMid \in handled'
                ELSE /\ pc' = "save0"
                     /\ last_id' >= CurMid /\ state'.last_id = last_id'
                     /\ CurMid \in handled' ]_vars
  /\ [][ pc = "post" => pc' \in {"post", "process", "save0", "exited", "boot"} ]_vars

\* C22 witness: with two destinations the first has failed for good on a
\* message that is not the last of its batch, and the second has failed
\* twice and is about to be sent its last POST.
C22_Witness ==
  /\ pc = "post" /\ active_webhooks = 2 /\ dest = 2
  /\ outcome[1] = "raised"
  /\ attempt = POST_ATTEMPTS - 1 /\ tried[2] = POST_ATTEMPTS - 1
  /\ slept = Backoff(1)
  /\ i < Len(msgs_sorted)

\* C23: last_trade_ts changes only when a delivery call was made for the
\* message being handled: after the loop body of discord_to_bybit.py has
\* handled a message without calling bybit.place_order (no Signal, no TP1,
\* a quantity of zero, TEST_MODE), last_trade_ts and state["last_trade_ts"]
\* are what they were (0.0).
C23_TimeOnlyOnDelivery ==
  orders = 0 => (last_trade_ts = 0 /\ state.last_trade_ts = 0)

\* C24: with a positive COOLDOWN_SECONDS, post_to_all_webhooks is entered
\* for a message only if the running process has completed no dispatch yet
\* or its latest dispatch completed at least COOLDOWN_SECONDS ago, whatever
\* ticks and per-tick errors lie between; so of the signal messages of one
\* batch, handled without time passing, at most one is dispatched.
C24_CooldownSpacing ==
  [][ (COOLDOWN_SECONDS > 0 /\ dispatched' # dispatched) =>
        (doneAt = None \/ now - doneAt >= COOLDOWN_SECONDS) ]_vars

\* C24 witness: two signal messages of one batch were handled back-to-back
\* under a positive cooldown: the first was dispatched once, the second was
\* skipped by the gate and never dispatched, and save_state is due.
C24_Witness ==
  /\ COOLDOWN_SECONDS > 0 /\ restarts = 0
  /\ pc = "save0" /\ phase = "tick" /\ doneAt = now
  /\ \E m1, m2 \in Ids :
       /\ fetchedAfter < m1 /\ m1 < m2
       /\ channel[m1] = "signal" /\ channel[m2] = "signal"
       /\ dispatched[m1] = 1 /\ m1 \notin dropped
       /\ dispatched[m2] = 0 /\ m2 \in dropped

\* C25: the two cascades go by priority alone.  A text with a slash-pair
\* header gets asset and direction from its first slash-pair line, a text
\* without one but with a legacy header from its first legacy line; a text
\* with an "Enter on Trigger:" price gets its entry from the first such
\* line, a text without one but with an "Entry:" price from the first such
\* line; and the Signal is the same when the lines of the lower rules are
\* replaced by other text, wherever in the text they stand.
Mask(txt, K) ==
  [n \in DOMAIN txt |-> IF txt[n].k \in K THEN Line("noise", "", "", <<>>) ELSE txt[n]]
Has(k) == \E n \in DOMAIN raw : raw[n].k = k /\ (k \in {"trigger", "colon"} => raw[n].num[1] \in Digits)
TheFirst(k) ==
  CHOOSE n \in DOMAIN raw :
    /\ raw[n].k = k /\ (k = "colon" => raw[n].num[1] \in Digits)
    /\ \A j \in 1..(n - 1) : ~(raw[j].k = k /\ (k = "colon" => raw[j].num[1] \in Digits))
C26_Progress ==
  \A m \in 1..MaxMsg : (Len(channel) >= m /\ m > baseline) ~> (PersistedId >= m)

====
